---- MODULE Spec2Model ----
(***************************************************************************)
(* A state-machine model of the crab-8 CHIP-8 interpreter: the machine of  *)
(* src/chip8.rs (memory, registers, program counter, call stack, timers),  *)
(* the display of src/display.rs, the key map of src/keymap.rs and the     *)
(* run loop of src/main.rs.  One action per instruction handler; every     *)
(* step action includes the timer sampling that Chip8::step performs       *)
(* before it decodes.                                                      *)
(***************************************************************************)
EXTENDS Integers, Sequences, FiniteSets, TLC

VARIABLES
    ram,         \* Chip8.ram: [u8; 4096], held as the map of its non-zero bytes
    v,           \* Registers.v_0 .. v_f, indexed 0..15
    i,           \* Registers.i: u16
    dt,          \* Registers.dt: u8
    st,          \* Registers.st: u8
    pc,          \* Chip8.pc: usize
    sp,          \* Chip8.sp: usize
    stack,       \* Chip8.stack: [usize; 16], indexed 0..15
    display,     \* Display.memory: [bool; 2048], held as the set of indices
                 \* in 0..2047 whose pixel is true
    start_time,  \* Chip8.start_time is Some(_)
    active,      \* KeyMap.active: HashSet<u8>
    status,      \* where the process is: "new", "running", "halted" (the run
                 \* loop was left), "exited", "panicked"
    result,      \* what the latest step() returned
    steps,       \* number of step() calls made so far
    loaded,      \* bytes.len() of the image load_rom read
    last,        \* what the latest step() saw when it was called
    eti,         \* the eti_mode argument load_rom was given
    fuel,        \* number of step() calls the run loop makes in this run
    watch,       \* the wall clock at the latest step(), when it is observed
    image,       \* the bytes of the image load_rom read
    dump,        \* main's dump: the -d or --dump option was given
    dumped       \* dump_to_stdout has been called

vars == <<ram, v, i, dt, st, pc, sp, stack, display, start_time, active,
          status, result, steps, loaded, last, eti, fuel, watch, image,
          dump, dumped>>

\* what the run was started with
run == <<loaded, eti, fuel, image, dump, dumped>>

machine == <<ram, v, i, dt, st, pc, sp, stack, display>>

----------------------------------------------------------------------------
(* Bounds of the model *)

\* longest run of load-immediate words in front of a program body
MaxSetup == 2

\* number of step() calls explored per run beyond one per word of the image
MaxIdle == 1

\* longest time, in clock ticks, one turn of the run loop takes beyond its sleep
MaxOverhead == 5

----------------------------------------------------------------------------
(* Program constants *)

RAM_SIZE == 4096
STACK_SIZE == 16
NORMAL_START_INDEX == 512
ETI_660_START_INDEX == 1526
PIXEL_COUNT == 64 * 32

Byte == 0..255
Reg == 0..15
Address == 0..(RAM_SIZE - 1)

\* ram[a]: a byte that is not in the map is zero
ram_get(mem, a) == IF a \in DOMAIN mem THEN mem[a] ELSE 0

\* ram with the bytes of `writes` (a map from addresses to bytes) stored
ram_store(mem, writes) ==
    LET at(a) == IF a \in DOMAIN writes THEN writes[a] ELSE mem[a]
    IN  [a \in { k \in DOMAIN mem \cup DOMAIN writes : at(k) # 0 } |-> at(a)]

\* Option<T> is modelled as a set with at most one element
None == {}
Some(x) == {x}
Unwrap(o) == CHOOSE x \in o : TRUE

----------------------------------------------------------------------------
(* u8 / u16 arithmetic as Rust computes it *)

Pow2(n) == 2 ^ n

\* u8::overflowing_add
overflowing_add(a, b) == [value |-> (a + b) % 256, overflow |-> a + b > 255]

\* u8::overflowing_sub
overflowing_sub(a, b) == [value |-> (a - b) % 256, overflow |-> a < b]

\* u8::overflowing_shr: the flag tells whether the shift amount was >= 8
overflowing_shr(a, n) == [value |-> a \div Pow2(n % 8), overflow |-> n >= 8]

\* u8::overflowing_shl: the flag tells whether the shift amount was >= 8
overflowing_shl(a, n) == [value |-> (a * Pow2(n % 8)) % 256, overflow |-> n >= 8]

\* u16::overflowing_add, value only
overflowing_add_u16(a, b) == (a + b) % 65536

Bit(b, k) == (b \div Pow2(k)) % 2

\* the byte whose bit k is f[bit k of a + bit k of b]
Bitwise(a, b, f) ==
    f[1 + Bit(a, 0) + Bit(b, 0)] + 2 * f[1 + Bit(a, 1) + Bit(b, 1)]
    + 4 * f[1 + Bit(a, 2) + Bit(b, 2)] + 8 * f[1 + Bit(a, 3) + Bit(b, 3)]
    + 16 * f[1 + Bit(a, 4) + Bit(b, 4)] + 32 * f[1 + Bit(a, 5) + Bit(b, 5)]
    + 64 * f[1 + Bit(a, 6) + Bit(b, 6)] + 128 * f[1 + Bit(a, 7) + Bit(b, 7)]

\* u8 | u8
BitOr(a, b) == Bitwise(a, b, <<0, 1, 1>>)

\* u8 & u8
BitAnd(a, b) == Bitwise(a, b, <<0, 0, 1>>)

\* u8 ^ u8
BitXor(a, b) == Bitwise(a, b, <<0, 1, 0>>)

\* fn high(byte): the upper nibble
high(byte) == BitAnd(byte, 15 * 16) \div 16

\* fn low(byte): the lower nibble
low(byte) == BitAnd(byte, 15)

----------------------------------------------------------------------------
(* Instruction words and program images *)

Word(a, b, c, d) == a * 4096 + b * 256 + c * 16 + d

\* the image of a sequence of big-endian words, as fs::read returns it
Bytes(words) ==
    [k \in 1..(2 * Len(words)) |->
        IF k % 2 = 1 THEN words[(k + 1) \div 2] \div 256
                     ELSE words[k \div 2] % 256]

\* load-immediate words that put 5 or 250 into V1, or 250 into V2
SetupWords ==
    { Word(6, 1, 0, 5), Word(6, 1, 15, 10), Word(6, 2, 15, 10) }

Setups == UNION { [1..n -> SetupWords] : n \in 0..MaxSetup }

\* 8xy? words with destination 1 or 15 and source 2 or 15
AluWords ==
    { Word(8, x, y, n) : x \in {1, 15}, y \in {2, 15},
                         n \in {0, 1, 2, 3, 4, 5, 6, 7, 14} }

OtherWords ==
    { Word(0, 0, 14, 0),    \* CLS
      Word(0, 0, 14, 14),   \* RET
      Word(0, 1, 2, 3),     \* SYS
      Word(1, 3, 0, 0),     \* JP 0x300
      Word(1, 2, 0, 1),     \* JP 0x201, an odd address
      Word(1, 15, 15, 15),  \* JP 0xFFF
      Word(2, 3, 0, 0),     \* CALL 0x300
      Word(3, 1, 0, 5),     \* SE V1, 5
      Word(4, 1, 0, 5),     \* SNE V1, 5
      Word(5, 1, 2, 0),     \* SE V1, V2
      Word(5, 1, 2, 1),     \* 5xy1
      Word(7, 1, 0, 6),     \* ADD V1, 6
      Word(7, 15, 0, 6),    \* ADD VF, 6
      Word(8, 1, 2, 8),     \* 8xy8, not an instruction
      Word(9, 1, 2, 0),     \* SNE V1, V2
      Word(10, 3, 0, 0),    \* LD I, 0x300
      Word(11, 3, 0, 0),    \* JP V0, 0x300
      Word(12, 1, 0, 3),    \* RND V1, 3
      Word(13, 1, 2, 5),    \* DRW V1, V2, 5
      Word(13, 0, 0, 0),    \* DRW V0, V0, 0
      Word(14, 1, 9, 14),   \* SKP V1
      Word(14, 1, 10, 1),   \* SKNP V1
      Word(14, 1, 0, 0),    \* Ex00, not an instruction
      Word(15, 1, 0, 7),    \* LD V1, DT
      Word(15, 1, 0, 10),   \* LD V1, K
      Word(15, 1, 1, 5),    \* LD DT, V1
      Word(15, 1, 1, 8),    \* LD ST, V1
      Word(15, 1, 1, 14),   \* ADD I, V1
      Word(15, 1, 2, 9),    \* LD F, V1
      Word(15, 1, 3, 3),    \* LD B, V1
      Word(15, 1, 5, 5),    \* LD [I], V1
      Word(15, 1, 6, 5),    \* LD V1, [I]
      Word(15, 15, 15, 15)  \* 0xFFFF, not an instruction
    }

\* bodies of more than one word
LongBodies ==
    { <<Word(15, 1, 1, 5), Word(15, 15, 15, 15)>>,   \* LD DT, V1 ; 0xFFFF
      <<Word(15, 1, 1, 8), Word(15, 15, 15, 15)>>,   \* LD ST, V1 ; 0xFFFF
      <<Word(15, 1, 1, 5), Word(15, 1, 0, 10)>>,     \* LD DT, V1 ; LD V1, K
      <<Word(13, 1, 2, 5), Word(13, 1, 2, 5)>>,      \* DRW ; DRW
      <<Word(2, 2, 0, 2), Word(0, 0, 14, 14)>>,      \* CALL 0x202 ; RET
      \* CALL 0x202 ; CALL 0x204 ; RET
      <<Word(2, 2, 0, 2), Word(2, 2, 0, 4), Word(0, 0, 14, 14)>>,
      \* LD I, 0x300 ; DRW ; DRW: a sprite of zero bytes, drawn twice
      <<Word(10, 3, 0, 0), Word(13, 1, 2, 5), Word(13, 1, 2, 5)>>,
      \* DRW ; ADD V1, 2 ; DRW: a glyph drawn over itself two columns right
      <<Word(13, 1, 2, 5), Word(7, 1, 0, 2), Word(13, 1, 2, 5)>>,
      \* LD V1, 60 ; LD V2, 31 ; LD I, 0x206 ; DRW V1, V2, 2: the sprite is
      \* the DRW word itself and the word after it
      <<Word(6, 1, 3, 12), Word(6, 2, 1, 15), Word(10, 2, 0, 6),
        Word(13, 1, 2, 2)>>,
      <<Word(6, 0, 0, 5), Word(7, 0, 0, 3)>>,        \* LD V0, 5 ; ADD V0, 3
      \* the address register at the end of memory
      <<Word(10, 15, 15, 13), Word(15, 1, 3, 3)>>,   \* LD I, 0xFFD ; LD B, V1
      <<Word(10, 15, 15, 14), Word(15, 1, 3, 3)>>,   \* LD I, 0xFFE ; LD B, V1
      <<Word(10, 15, 15, 14), Word(15, 1, 5, 5)>>,   \* LD I, 0xFFE ; LD [I], V1
      <<Word(10, 15, 15, 15), Word(15, 1, 5, 5)>>,   \* LD I, 0xFFF ; LD [I], V1
      <<Word(10, 15, 15, 15), Word(15, 1, 6, 5)>>,   \* LD I, 0xFFF ; LD V1, [I]
      <<Word(10, 15, 15, 15), Word(13, 1, 2, 5)>>,   \* LD I, 0xFFF ; DRW
      <<Word(15, 1, 1, 5), Word(3, 1, 0, 5)>>,       \* LD DT, V1 ; SE V1, 5
      <<Word(13, 1, 2, 5), Word(0, 0, 14, 0)>>,      \* DRW ; CLS
      <<Word(13, 1, 2, 5), Word(0, 1, 14, 0)>>,      \* DRW ; SYS 0x1E0
      <<Word(15, 1, 1, 5), Word(15, 1, 3, 3)>>,      \* LD DT, V1 ; LD B, V1
      \* LD I, 0x300 ; LD [I], V1 ; LD V1, 0x77 ; LD V1, [I]
      <<Word(10, 3, 0, 0), Word(15, 1, 5, 5), Word(6, 1, 7, 7),
        Word(15, 1, 6, 5)>>,
      <<Word(15, 1, 1, 5), Word(15, 1, 5, 5)>>,      \* LD DT, V1 ; LD [I], V1
      \* LD I, 0x300 ; LD DT, V1 ; LD F, V1
      <<Word(10, 3, 0, 0), Word(15, 1, 1, 5), Word(15, 1, 2, 9)>>
    }

\* bodies that call themselves until the call stack is full
DeepBodies == { <<Word(2, 2, 0, 0)>> }                \* CALL 0x200

\* bodies that set a timer and go on stepping
TimerBodies ==
    { <<Word(15, 1, 1, 5), Word(15, 15, 15, 15)>>,   \* LD DT, V1 ; 0xFFFF
      <<Word(15, 1, 1, 8), Word(15, 15, 15, 15)>>,   \* LD ST, V1 ; 0xFFFF
      <<Word(15, 1, 1, 5), Word(15, 1, 0, 10)>>,     \* LD DT, V1 ; LD V1, K
      <<Word(15, 1, 1, 5), Word(15, 1, 0, 7)>>       \* LD DT, V1 ; LD V1, DT
    }

Bodies ==
    { <<w>> : w \in AluWords \cup OtherWords } \cup LongBodies \cup DeepBodies

\* the keys the input latch reports as most recently pressed
LatchKeys == {5, 12}

\* the bytes the random number generator returns
RandomBytes == {0, 1, 2, 255}

\* the keycodes the host sends: W is key 5, Space is no key
Keycodes == {"W", "Space"}

----------------------------------------------------------------------------
(* Chip8::new *)

\* the font table of load_hexadecimal_display_bytes
FontBytes ==
    << 240, 144, 144, 144, 240,
       32, 96, 32, 32, 112,
       240, 16, 240, 128, 240,
       240, 16, 240, 16, 240,
       144, 144, 240, 16, 16,
       240, 128, 240, 16, 240,
       240, 128, 240, 144, 240,
       240, 16, 32, 64, 64,
       240, 144, 240, 144, 240,
       240, 144, 240, 16, 240,
       240, 144, 240, 144, 144,
       224, 144, 224, 144, 224,
       240, 128, 128, 128, 240,
       233, 144, 144, 144, 224,
       240, 128, 240, 128, 249,
       240, 128, 240, 128, 128 >>

load_hexadecimal_display_bytes(mem) ==
    ram_store(mem, [a \in 0..(Len(FontBytes) - 1) |-> FontBytes[a + 1]])

Ok == [ok |-> TRUE, bytes |-> <<>>]
Err(h, l) == [ok |-> FALSE, bytes |-> <<h, l>>]

NoStep ==
    [hi |-> 0, lo |-> 0, pc |-> 0, v |-> [r \in Reg |-> 0], i |-> 0,
     dt |-> 0, st |-> 0, sp |-> 0, stack |-> [s \in 0..(STACK_SIZE - 1) |-> 0],
     display |-> {}, key |-> None]

\* the wall clock is not observed: every sampling outcome is explored
NoWatch == [on |-> FALSE, phase |-> 0, crossed |-> FALSE]

\* the wall clock is observed from the epoch the first step() sets
Epoch == [on |-> TRUE, phase |-> 0, crossed |-> FALSE]

\* the machine as Chip8::new returns it, before load_rom
Created ==
    /\ ram = load_hexadecimal_display_bytes(<<>>)
    /\ v = [r \in Reg |-> 0]
    /\ i = 0
    /\ dt = 0
    /\ st = 0
    /\ pc = 0
    /\ sp = 0
    /\ stack = [s \in 0..(STACK_SIZE - 1) |-> 0]
    /\ display = {}
    /\ start_time = FALSE
    /\ active = {}
    /\ status = "new"
    /\ result = Ok
    /\ steps = 0
    /\ loaded = 0
    /\ last = NoStep
    /\ eti = FALSE
    /\ fuel = 0
    /\ image = <<>>
    /\ dumped = FALSE

Init == Created /\ watch = NoWatch /\ dump = FALSE

----------------------------------------------------------------------------
(* Chip8::load_rom *)

start_index(eti_mode) ==
    IF eti_mode THEN ETI_660_START_INDEX ELSE NORMAL_START_INDEX

load_rom_ram(mem, bytes, eti_mode) ==
    ram_store(mem, [a \in start_index(eti_mode)
                            ..(start_index(eti_mode) + Len(bytes) - 1) |->
                        bytes[a - start_index(eti_mode) + 1]])

\* the number of step() calls explored for an image: one per word and
\* MaxIdle more, or enough to fill the call stack and overflow it
Fuel(setup, body) ==
    IF body \in DeepBodies
    THEN STACK_SIZE + MaxIdle
    ELSE Len(setup \o body) + MaxIdle

\* load_rom on an image made of a setup and one of the given bodies
load(bodies) ==
    \E setup \in Setups, body \in bodies, eti_mode \in BOOLEAN :
        /\ status = "new"
        /\ ram' = load_rom_ram(ram, Bytes(setup \o body), eti_mode)
        /\ pc' = start_index(eti_mode)
        /\ loaded' = Len(Bytes(setup \o body))
        /\ image' = Bytes(setup \o body)
        /\ eti' = eti_mode
        /\ fuel' = Fuel(setup, body)
        /\ status' = "running"
        /\ UNCHANGED <<v, i, dt, st, sp, stack, display, start_time, active,
                       result, steps, last, watch, dump, dumped>>

load_rom == load(Bodies)

\* load_rom on an image that sets and reads the timers
load_timer_rom == load(TimerBodies)

----------------------------------------------------------------------------
(* src/keymap.rs *)

\* KeyMap::to_chip8_key
to_chip8_key(keycode) ==
    CASE keycode = "Num1" -> Some(1)
      [] keycode = "Num2" -> Some(2)
      [] keycode = "Num3" -> Some(3)
      [] keycode = "Num4" -> Some(12)
      [] keycode = "Q" -> Some(4)
      [] keycode = "W" -> Some(5)
      [] keycode = "E" -> Some(6)
      [] keycode = "R" -> Some(13)
      [] keycode = "A" -> Some(7)
      [] keycode = "S" -> Some(8)
      [] keycode = "D" -> Some(9)
      [] keycode = "F" -> Some(14)
      [] keycode = "Z" -> Some(10)
      [] keycode = "X" -> Some(0)
      [] keycode = "C" -> Some(11)
      [] keycode = "V" -> Some(15)
      [] OTHER -> None

\* KeyMap::is_key_pressed
is_key_pressed(keys, key) == key \in keys

\* KeyMap::most_recent_key is called by chip8.rs and is not part of
\* keymap.rs: the answers the input latch can give, no key or one of 0..F
most_recent_key == {None} \cup { Some(k) : k \in LatchKeys }

\* KeyMap::add_key, from the KeyDown arm of the run loop
add_key ==
    \E keycode \in Keycodes :
        /\ status = "running"
        /\ steps > 0
        /\ active' = active \cup to_chip8_key(keycode)
        /\ UNCHANGED <<machine, start_time, status, result, steps, last, run,
                       watch>>

\* KeyMap::remove_key, from the KeyUp arm of the run loop
remove_key ==
    \E keycode \in Keycodes :
        /\ status = "running"
        /\ steps > 0
        /\ active' = active \ to_chip8_key(keycode)
        /\ UNCHANGED <<machine, start_time, status, result, steps, last, run,
                       watch>>

----------------------------------------------------------------------------
(* src/display.rs *)

\* Display::to_index
to_index(x, y) == y * 64 + x

\* Display::get
Display_get(memory, x, y) == to_index(x, y) \in memory

\* Display::set storing the sprite bit instead of its XOR with the pixel
Display_set_overwriting(memory, x, y, pixel) ==
    LET current == Display_get(memory, x, y)
    IN  IF pixel
        THEN [memory |-> memory \cup {to_index(x, y)}, ret |-> current]
        ELSE [memory |-> memory \ {to_index(x, y)}, ret |-> FALSE]

\* Display::set: the pixel array afterwards and the value returned
Display_set(memory, x, y, pixel) ==
    LET current == Display_get(memory, x, y)
    IN  IF current # pixel
        THEN [memory |-> memory \cup {to_index(x, y)}, ret |-> FALSE]
        ELSE [memory |-> memory \ {to_index(x, y)}, ret |-> TRUE]

\* Display::clear
Display_clear == {}

\* u8::rotate_left(1)
rotate_left(byte) == ((byte * 2) % 256) + (byte \div 128)

\* u8::leading_ones() > 0
leading_one(byte) == byte >= 128

\* Sprite::to_pixels: pixels[k] is the top bit after k rotations
to_pixels(byte) ==
    LET rot[k \in 0..7] == IF k = 0 THEN byte ELSE rotate_left(rot[k - 1])
    IN  [k \in 0..7 |-> leading_one(rot[k])]

\* the inner loop of Sprite::draw without `dx %= 64`
RECURSIVE draw_pixels_past_the_edge(_, _, _, _, _, _)
draw_pixels_past_the_edge(memory, collision, dx, dy, pixels, k) ==
    IF k > 7 THEN [memory |-> memory, collision |-> collision]
    ELSE LET s == Display_set(memory, dx, dy, pixels[k])
         IN  IF s.ret
             THEN draw_pixels_past_the_edge(s.memory, TRUE, dx + 1, dy, pixels,
                                            k + 1)
             ELSE draw_pixels_past_the_edge(s.memory, collision, dx + 1, dy,
                                            pixels, k + 1)

\* the inner loop of Sprite::draw over the pixels k..7 of one byte:
\* `if collide { collision = Collision::True }; dx += 1; dx %= 64`
RECURSIVE draw_pixels(_, _, _, _, _, _)
draw_pixels(memory, collision, dx, dy, pixels, k) ==
    IF k > 7 THEN [memory |-> memory, collision |-> collision]
    ELSE LET s == Display_set(memory, dx, dy, pixels[k])
         IN  IF s.ret
             THEN draw_pixels(s.memory, TRUE, (dx + 1) % 64, dy, pixels, k + 1)
             ELSE draw_pixels(s.memory, collision, (dx + 1) % 64, dy, pixels,
                              k + 1)

\* the outer loop of Sprite::draw with the rows clipped at the bottom edge
\* instead of `dy %= 32`
RECURSIVE draw_bytes_clipped(_, _, _, _, _, _)
draw_bytes_clipped(memory, collision, x, dy, bytes, r) ==
    IF r > Len(bytes) \/ dy > 31
    THEN [memory |-> memory, collision |-> collision]
    ELSE LET row == draw_pixels(memory, collision, x % 64, dy,
                                to_pixels(bytes[r]), 0)
         IN  draw_bytes_clipped(row.memory, row.collision, x, dy + 1, bytes,
                                r + 1)

\* the outer loop of Sprite::draw over the bytes r..Len(bytes)
RECURSIVE draw_bytes(_, _, _, _, _, _)
draw_bytes(memory, collision, x, dy, bytes, r) ==
    IF r > Len(bytes) THEN [memory |-> memory, collision |-> collision]
    ELSE LET row == draw_pixels(memory, collision, x % 64, dy,
                                to_pixels(bytes[r]), 0)
         IN  draw_bytes(row.memory, row.collision, x, (dy + 1) % 32, bytes,
                        r + 1)

\* Sprite::draw where a pixel, once on, stays on
Sprite_draw_merging(bytes, x, y, memory) ==
    LET drawn == draw_bytes(memory, FALSE, x, y % 32, bytes, 1)
    IN  [memory |-> memory \cup drawn.memory, collision |-> drawn.collision]

\* Sprite::draw
Sprite_draw(bytes, x, y, memory) == draw_bytes(memory, FALSE, x, y % 32, bytes, 1)

----------------------------------------------------------------------------
(* Registers *)

\* Registers::get
get(regs, register) == regs[register]

\* Registers::put
put(regs, register, value) == [regs EXCEPT ![register] = value]

----------------------------------------------------------------------------
(* Chip8::step: fetch, timers and what every handler shares *)

high_byte == ram_get(ram, pc)
low_byte == ram_get(ram, pc + 1)

\* Chip8::instruction
instruction == high_byte * 256 + low_byte

\* Chip8::addr
addr == instruction % 4096

\* run_timers, had it decremented without looking at the value
run_timers_wrapping(timers, started, due) ==
    IF ~started \/ ~due THEN timers
    ELSE [dt |-> (timers.dt - 1) % 256, st |-> (timers.st - 1) % 256]

\* Chip8::run_timers; due is `elapsed % CLOCK_CYCLE <= 0.01` at this call
run_timers(timers, started, due) ==
    IF ~started \/ ~due THEN timers
    ELSE [dt |-> IF timers.dt > 0 THEN timers.dt - 1 ELSE timers.dt,
          st |-> IF timers.st > 0 THEN timers.st - 1 ELSE timers.st]

\* the timers as the handler finds them: step() has set start_time by then
sampled(due) == run_timers([dt |-> dt, st |-> st], TRUE, due)

\* step() is called by the run loop
Stepping ==
    /\ status = "running"
    /\ steps < fuel

\* the word at pc can be fetched
Fetched == Stepping /\ pc + 1 < RAM_SIZE

\* CLOCK_CYCLE, 1/60 s, in clock ticks of 1/600 s
TicksPerCycle == 10

\* the 0.01 s of `elapsed % CLOCK_CYCLE <= 0.01`, in clock ticks
DueTicks == 6

\* the thread::sleep of 1/120 s at the end of every turn of the run loop
SleepTicks == 5

\* time.elapsed() at this step(): zero at the step that sets start_time,
\* and later by the sleep and the overhead of one turn of the run loop;
\* due is `elapsed % CLOCK_CYCLE <= 0.01` for that reading
Watched(due) ==
    IF ~watch.on THEN watch' = watch
    ELSE IF ~start_time THEN watch' = Epoch /\ due
    ELSE \E over \in 0..MaxOverhead :
            LET elapsed == watch.phase + SleepTicks + over
            IN  /\ watch' = [on |-> TRUE,
                             phase |-> elapsed % TicksPerCycle,
                             crossed |-> elapsed >= TicksPerCycle]
                /\ due = (elapsed % TicksPerCycle <= DueTicks)

\* what step() does whatever the word is
Called(due, key) ==
    /\ start_time' = TRUE
    /\ steps' = steps + 1
    /\ last' = [hi |-> high_byte, lo |-> low_byte, pc |-> pc, v |-> v, i |-> i,
                dt |-> dt, st |-> st, sp |-> sp, stack |-> stack,
                display |-> display, key |-> key]
    /\ Watched(due)
    /\ UNCHANGED <<active, run>>

\* the handler leaves the timers as run_timers left them
Ticked(due) ==
    /\ dt' = sampled(due).dt
    /\ st' = sampled(due).st

\* step() returns Ok(()) and the run loop goes on
Returned ==
    /\ result' = Ok
    /\ status' = status

\* the process panics: an index out of range, an arithmetic overflow, an expect
Panicked ==
    /\ status' = "panicked"
    /\ UNCHANGED <<machine, result>>

\* ram[pc] or ram[pc + 1] is out of range
fetch_panic ==
    /\ Stepping
    /\ pc + 1 >= RAM_SIZE
    /\ steps' = steps + 1
    /\ start_time' = TRUE
    /\ Panicked
    /\ \E due \in BOOLEAN : Watched(due)
    /\ UNCHANGED <<active, run, last>>

----------------------------------------------------------------------------
(* The handlers of opcodes 0 to 7 *)

\* 00E0 - CLS; step() tests the low byte alone, so every 0nE0 comes here
clear ==
    /\ Fetched
    /\ high(high_byte) = 0 /\ low_byte = 224
    /\ \E due \in BOOLEAN :
        /\ Called(due, None)
        /\ display' = Display_clear
        /\ pc' = pc + 2
        /\ Ticked(due) /\ Returned
        /\ UNCHANGED <<ram, v, i, sp, stack>>

\* the value ret returns when it resumes at the call site itself
ret_pc_at_call_site(frames, depth) == frames[depth]

\* the value ret returns: `self.stack[self.sp] + 2`, sp already decremented
ret_pc(frames, depth) == frames[depth] + 2

\* 00EE - RET: `self.sp -= 1` and then `self.stack[self.sp] + 2`; step()
\* tests the low byte alone, so every 0nEE comes here
ret ==
    /\ Fetched
    /\ high(high_byte) = 0 /\ low_byte = 238
    /\ \E due \in BOOLEAN :
        /\ Called(due, None)
        /\ IF sp = 0
           THEN Panicked
           ELSE /\ sp' = sp - 1
                /\ pc' = ret_pc(stack, sp - 1)
                /\ Ticked(due) /\ Returned
                /\ UNCHANGED <<ram, v, i, stack, display>>

\* 0nnn - SYS, ignored
sys ==
    /\ Fetched
    /\ high(high_byte) = 0 /\ low_byte # 224 /\ low_byte # 238
    /\ \E due \in BOOLEAN :
        /\ Called(due, None)
        /\ pc' = pc + 2
        /\ Ticked(due) /\ Returned
        /\ UNCHANGED <<ram, v, i, sp, stack, display>>

\* 1nnn - JP addr
jump ==
    /\ Fetched
    /\ high(high_byte) = 1
    /\ \E due \in BOOLEAN :
        /\ Called(due, None)
        /\ pc' = addr
        /\ Ticked(due) /\ Returned
        /\ UNCHANGED <<ram, v, i, sp, stack, display>>

\* the index check of `self.stack[self.sp]` letting index 16 through
stack_index_in_bounds_off_by_one(depth) == depth <= STACK_SIZE

\* the index check of `self.stack[self.sp] = self.pc` on a [usize; 16]
stack_index_in_bounds(depth) == depth < STACK_SIZE

\* 2nnn - CALL addr: `self.stack[self.sp] = self.pc; self.sp += 1`
call ==
    /\ Fetched
    /\ high(high_byte) = 2
    /\ \E due \in BOOLEAN :
        /\ Called(due, None)
        /\ IF ~stack_index_in_bounds(sp)
           THEN Panicked
           ELSE /\ stack' = [stack EXCEPT ![sp] = pc]
                /\ sp' = sp + 1
                /\ pc' = addr
                /\ Ticked(due) /\ Returned
                /\ UNCHANGED <<ram, v, i, display>>

\* skip_eq, had it skipped on the opposite condition
skip_eq_pc_inverted(regs, x, kk, at) ==
    IF get(regs, x) # kk THEN at + 4 ELSE at + 2

\* the value skip_eq returns
skip_eq_pc(regs, x, kk, at) == IF get(regs, x) = kk THEN at + 4 ELSE at + 2

\* 3xkk - SE Vx, byte
skip_eq ==
    /\ Fetched
    /\ high(high_byte) = 3
    /\ \E due \in BOOLEAN :
        /\ Called(due, None)
        /\ pc' = skip_eq_pc(v, low(high_byte), low_byte, pc)
        /\ Ticked(due) /\ Returned
        /\ UNCHANGED <<ram, v, i, sp, stack, display>>

\* the value skip_neq returns
skip_neq_pc(regs, x, kk, at) == IF get(regs, x) # kk THEN at + 4 ELSE at + 2

\* 4xkk - SNE Vx, byte
skip_neq ==
    /\ Fetched
    /\ high(high_byte) = 4
    /\ \E due \in BOOLEAN :
        /\ Called(due, None)
        /\ pc' = skip_neq_pc(v, low(high_byte), low_byte, pc)
        /\ Ticked(due) /\ Returned
        /\ UNCHANGED <<ram, v, i, sp, stack, display>>

\* the value skip_eq_reg returns
skip_eq_reg_pc(regs, x, y, at) ==
    IF get(regs, x) = get(regs, y) THEN at + 4 ELSE at + 2

\* 5xy0 - SE Vx, Vy; step() dispatches on the top nibble alone
skip_eq_reg ==
    /\ Fetched
    /\ high(high_byte) = 5
    /\ \E due \in BOOLEAN :
        /\ Called(due, None)
        /\ pc' = skip_eq_reg_pc(v, low(high_byte), high(low_byte), pc)
        /\ Ticked(due) /\ Returned
        /\ UNCHANGED <<ram, v, i, sp, stack, display>>

\* 6xkk - LD Vx, byte
load_vx ==
    /\ Fetched
    /\ high(high_byte) = 6
    /\ \E due \in BOOLEAN :
        /\ Called(due, None)
        /\ v' = put(v, low(high_byte), low_byte)
        /\ pc' = pc + 2
        /\ Ticked(due) /\ Returned
        /\ UNCHANGED <<ram, i, sp, stack, display>>

\* add_vx, had it recorded the carry in register 15
add_vx_regs_with_carry(regs, x, kk) ==
    put(put(regs, x, overflowing_add(get(regs, x), kk).value),
        15, IF overflowing_add(get(regs, x), kk).overflow THEN 1 ELSE 0)

\* the registers after add_vx
add_vx_regs(regs, x, kk) ==
    put(regs, x, overflowing_add(get(regs, x), kk).value)

\* 7xkk - ADD Vx, byte
add_vx ==
    /\ Fetched
    /\ high(high_byte) = 7
    /\ \E due \in BOOLEAN :
        /\ Called(due, None)
        /\ v' = add_vx_regs(v, low(high_byte), low_byte)
        /\ pc' = pc + 2
        /\ Ticked(due) /\ Returned
        /\ UNCHANGED <<ram, i, sp, stack, display>>

----------------------------------------------------------------------------
(* The handlers of opcode 8 *)

\* a handler of the 8xy? family that writes the registers and returns pc + 2
Alu(n, regs) ==
    /\ Fetched
    /\ high(high_byte) = 8 /\ low(low_byte) = n
    /\ \E due \in BOOLEAN :
        /\ Called(due, None)
        /\ v' = regs
        /\ pc' = pc + 2
        /\ Ticked(due) /\ Returned
        /\ UNCHANGED <<ram, i, sp, stack, display>>

\* 8xy0 - LD Vx, Vy
set_vx_to_vy_regs(regs, x, y) == put(regs, x, get(regs, y))

set_vx_to_vy == Alu(0, set_vx_to_vy_regs(v, low(high_byte), high(low_byte)))

\* 8xy1 - OR Vx, Vy
vx_or_vy_regs(regs, x, y) == put(regs, x, BitOr(get(regs, y), get(regs, x)))

vx_or_vy == Alu(1, vx_or_vy_regs(v, low(high_byte), high(low_byte)))

\* 8xy2 - AND Vx, Vy
vx_and_vy_regs(regs, x, y) == put(regs, x, BitAnd(get(regs, y), get(regs, x)))

vx_and_vy == Alu(2, vx_and_vy_regs(v, low(high_byte), high(low_byte)))

\* 8xy3 - XOR Vx, Vy
vx_xor_vy_regs(regs, x, y) == put(regs, x, BitXor(get(regs, y), get(regs, x)))

vx_xor_vy == Alu(3, vx_xor_vy_regs(v, low(high_byte), high(low_byte)))

\* an add that stores the sum and leaves v_f alone
add_vx_and_vy_regs_without_flag(regs, x, y) ==
    put(regs, x, overflowing_add(get(regs, x), get(regs, y)).value)

\* 8xy4 - ADD Vx, Vy: v_f is written first, then put(x, result)
add_vx_and_vy_regs(regs, x, y) ==
    LET sum == overflowing_add(get(regs, x), get(regs, y))
        flagged == [regs EXCEPT ![15] = IF sum.overflow THEN 1 ELSE 0]
    IN  put(flagged, x, sum.value)

add_vx_and_vy == Alu(4, add_vx_and_vy_regs(v, low(high_byte), high(low_byte)))

\* a subtract whose flag is Vx >= Vy
sub_vx_and_vy_regs_not_strict(regs, x, y) ==
    LET vx == get(regs, x)
        vy == get(regs, y)
        flagged == [regs EXCEPT ![15] = IF vx >= vy THEN 1 ELSE 0]
    IN  put(flagged, x, overflowing_sub(vx, vy).value)

\* 8xy5 - SUB Vx, Vy: v_f is written first, then put(x, result)
sub_vx_and_vy_regs(regs, x, y) ==
    LET vx == get(regs, x)
        vy == get(regs, y)
        flagged == [regs EXCEPT ![15] = IF vx > vy THEN 1 ELSE 0]
    IN  put(flagged, x, overflowing_sub(vx, vy).value)

sub_vx_and_vy == Alu(5, sub_vx_and_vy_regs(v, low(high_byte), high(low_byte)))

\* 8xy6 - SHR Vx: put(x, result) first, then v_f from overflowing_shr's flag
vx_shr_regs(regs, x) ==
    LET shifted == overflowing_shr(get(regs, x), 1)
        stored == put(regs, x, shifted.value)
    IN  [stored EXCEPT ![15] = IF shifted.overflow THEN 1 ELSE 0]

vx_shr == Alu(6, vx_shr_regs(v, low(high_byte)))

\* 8xy7 - SUBN Vx, Vy: v_f is written first, then put(x, result)
vx_subn_vy_regs(regs, x, y) ==
    LET vx == get(regs, x)
        vy == get(regs, y)
        flagged == [regs EXCEPT ![15] = IF vy > vx THEN 1 ELSE 0]
    IN  put(flagged, x, overflowing_sub(vy, vx).value)

\* the handler takes y from low(low_byte)
vx_subn_vy == Alu(7, vx_subn_vy_regs(v, low(high_byte), low(low_byte)))

\* 8xyE - SHL Vx: put(x, result) first, then v_f from overflowing_shl's flag
vx_shl_regs(regs, x) ==
    LET shifted == overflowing_shl(get(regs, x), 1)
        stored == put(regs, x, shifted.value)
    IN  [stored EXCEPT ![15] = IF shifted.overflow THEN 1 ELSE 0]

vx_shl == Alu(14, vx_shl_regs(v, low(high_byte)))

----------------------------------------------------------------------------
(* The handlers of opcodes 9 to D *)

\* skip_vx_neq_vy, had it skipped one byte instead of one instruction
skip_vx_neq_vy_pc_one_byte(regs, x, y, at) ==
    IF get(regs, x) # get(regs, y) THEN at + 3 ELSE at + 2

\* the value skip_vx_neq_vy returns
skip_vx_neq_vy_pc(regs, x, y, at) ==
    IF get(regs, x) # get(regs, y) THEN at + 4 ELSE at + 2

\* 9xy0 - SNE Vx, Vy; step() dispatches on the top nibble alone
skip_vx_neq_vy ==
    /\ Fetched
    /\ high(high_byte) = 9
    /\ \E due \in BOOLEAN :
        /\ Called(due, None)
        /\ pc' = skip_vx_neq_vy_pc(v, low(high_byte), high(low_byte), pc)
        /\ Ticked(due) /\ Returned
        /\ UNCHANGED <<ram, v, i, sp, stack, display>>

\* Annn - LD I, addr
load_i ==
    /\ Fetched
    /\ high(high_byte) = 10
    /\ \E due \in BOOLEAN :
        /\ Called(due, None)
        /\ i' = addr
        /\ pc' = pc + 2
        /\ Ticked(due) /\ Returned
        /\ UNCHANGED <<ram, v, sp, stack, display>>

\* Bnnn - JP V0, addr
jump_plus_v0 ==
    /\ Fetched
    /\ high(high_byte) = 11
    /\ \E due \in BOOLEAN :
        /\ Called(due, None)
        /\ pc' = addr + get(v, 0)
        /\ Ticked(due) /\ Returned
        /\ UNCHANGED <<ram, v, i, sp, stack, display>>

\* Cxkk - RND Vx, byte
rand ==
    /\ Fetched
    /\ high(high_byte) = 12
    /\ \E due \in BOOLEAN, random_number \in RandomBytes :
        /\ Called(due, None)
        /\ v' = put(v, low(high_byte), BitAnd(random_number, low_byte))
        /\ pc' = pc + 2
        /\ Ticked(due) /\ Returned
        /\ UNCHANGED <<ram, i, sp, stack, display>>

\* the n bytes of ram from address on, as a sequence
sprite_bytes(mem, address, n) == [k \in 1..n |-> ram_get(mem, address + k - 1)]

\* the registers after draw
draw_regs(regs, collision) == [regs EXCEPT ![15] = IF collision THEN 1 ELSE 0]

\* Dxyn - DRW Vx, Vy, nibble; the slice `address..address + n` must lie in ram
draw ==
    /\ Fetched
    /\ high(high_byte) = 13
    /\ \E due \in BOOLEAN :
        /\ Called(due, None)
        /\ IF i + low(low_byte) > RAM_SIZE
           THEN Panicked
           ELSE LET drawn == Sprite_draw(sprite_bytes(ram, i, low(low_byte)),
                                         get(v, low(high_byte)),
                                         get(v, high(low_byte)), display)
                IN  /\ display' = drawn.memory
                    /\ v' = draw_regs(v, drawn.collision)
                    /\ pc' = pc + 2
                    /\ Ticked(due) /\ Returned
                    /\ UNCHANGED <<ram, i, sp, stack>>

----------------------------------------------------------------------------
(* The handlers of opcodes E and F *)

\* the value skip_pressed returns
skip_pressed_pc(regs, keys, x, at) ==
    IF is_key_pressed(keys, get(regs, x)) THEN at + 4 ELSE at + 2

\* Ex9E - SKP Vx; step() calls `self.skip_pressed(keymap);` and drops the
\* value it returns, so pc is not assigned
skip_pressed ==
    /\ Fetched
    /\ high(high_byte) = 14 /\ low_byte = 158
    /\ \E due \in BOOLEAN :
        /\ Called(due, None)
        /\ skip_pressed_pc(v, active, low(high_byte), pc) \in Nat
        /\ pc' = pc
        /\ Ticked(due) /\ Returned
        /\ UNCHANGED <<ram, v, i, sp, stack, display>>

\* the value skip_not_pressed returns
skip_not_pressed_pc(regs, keys, x, at) ==
    IF ~is_key_pressed(keys, get(regs, x)) THEN at + 4 ELSE at + 2

\* ExA1 - SKNP Vx; step() calls `self.skip_not_pressed(keymap);` and drops
\* the value it returns, so pc is not assigned
skip_not_pressed ==
    /\ Fetched
    /\ high(high_byte) = 14 /\ low_byte = 161
    /\ \E due \in BOOLEAN :
        /\ Called(due, None)
        /\ skip_not_pressed_pc(v, active, low(high_byte), pc) \in Nat
        /\ pc' = pc
        /\ Ticked(due) /\ Returned
        /\ UNCHANGED <<ram, v, i, sp, stack, display>>

\* Fx07 - LD Vx, DT
set_vx_delay_timer ==
    /\ Fetched
    /\ high(high_byte) = 15 /\ low_byte = 7
    /\ \E due \in BOOLEAN :
        /\ Called(due, None)
        /\ v' = put(v, low(high_byte), sampled(due).dt)
        /\ pc' = pc + 2
        /\ Ticked(due) /\ Returned
        /\ UNCHANGED <<ram, i, sp, stack, display>>

\* the registers after wait_and_load_key_press
wait_and_load_key_press_regs(regs, x, key) ==
    IF key # None THEN put(regs, x, Unwrap(key)) ELSE regs

\* a wait for a key that moves on whether or not a key was reported
wait_and_load_key_press_pc_never_holding(key, at) == at + 2

\* the value wait_and_load_key_press returns
wait_and_load_key_press_pc(key, at) == IF key # None THEN at + 2 ELSE at

\* Fx0A - LD Vx, K
wait_and_load_key_press ==
    /\ Fetched
    /\ high(high_byte) = 15 /\ low_byte = 10
    /\ \E due \in BOOLEAN, key \in most_recent_key :
        /\ Called(due, key)
        /\ v' = wait_and_load_key_press_regs(v, low(high_byte), key)
        /\ pc' = wait_and_load_key_press_pc(key, pc)
        /\ Ticked(due) /\ Returned
        /\ UNCHANGED <<ram, i, sp, stack, display>>

\* Fx15 - LD DT, Vx
set_delay_timer ==
    /\ Fetched
    /\ high(high_byte) = 15 /\ low_byte = 21
    /\ \E due \in BOOLEAN :
        /\ Called(due, None)
        /\ dt' = get(v, low(high_byte))
        /\ st' = sampled(due).st
        /\ pc' = pc + 2
        /\ Returned
        /\ UNCHANGED <<ram, v, i, sp, stack, display>>

\* Fx18 - LD ST, Vx
set_sound_timer ==
    /\ Fetched
    /\ high(high_byte) = 15 /\ low_byte = 24
    /\ \E due \in BOOLEAN :
        /\ Called(due, None)
        /\ st' = get(v, low(high_byte))
        /\ dt' = sampled(due).dt
        /\ pc' = pc + 2
        /\ Returned
        /\ UNCHANGED <<ram, v, i, sp, stack, display>>

\* Fx1E - ADD I, Vx
add ==
    /\ Fetched
    /\ high(high_byte) = 15 /\ low_byte = 30
    /\ \E due \in BOOLEAN :
        /\ Called(due, None)
        /\ i' = overflowing_add_u16(i, get(v, low(high_byte)))
        /\ pc' = pc + 2
        /\ Ticked(due) /\ Returned
        /\ UNCHANGED <<ram, v, sp, stack, display>>

\* set_i_to_sprite_vx, had it not looked at the size of Vx
set_i_to_sprite_vx_i_unguarded(regs, x, address) == get(regs, x) * 5

\* the address register after set_i_to_sprite_vx
set_i_to_sprite_vx_i(regs, x, address) ==
    IF get(regs, x) <= 15 THEN get(regs, x) * 5 ELSE address

\* Fx29 - LD F, Vx
set_i_to_sprite_vx ==
    /\ Fetched
    /\ high(high_byte) = 15 /\ low_byte = 41
    /\ \E due \in BOOLEAN :
        /\ Called(due, None)
        /\ i' = set_i_to_sprite_vx_i(v, low(high_byte), i)
        /\ pc' = pc + 2
        /\ Ticked(due) /\ Returned
        /\ UNCHANGED <<ram, v, sp, stack, display>>

\* store_bcd, had it left the tens digit unreduced
store_bcd_ram_tens_unreduced(mem, address, vx) ==
    ram_store(mem, (address :> vx \div 100)
                   @@ (address + 1 :> vx \div 10)
                   @@ (address + 2 :> vx % 10))

\* ram after store_bcd
store_bcd_ram(mem, address, vx) ==
    ram_store(mem, (address :> vx \div 100)
                   @@ (address + 1 :> (vx \div 10) % 10)
                   @@ (address + 2 :> vx % 10))

\* Fx33 - LD B, Vx; ram[i], ram[i + 1], ram[i + 2] must be in range
store_bcd ==
    /\ Fetched
    /\ high(high_byte) = 15 /\ low_byte = 51
    /\ \E due \in BOOLEAN :
        /\ Called(due, None)
        /\ IF i + 2 >= RAM_SIZE
           THEN Panicked
           ELSE /\ ram' = store_bcd_ram(ram, i, get(v, low(high_byte)))
                /\ pc' = pc + 2
                /\ Ticked(due) /\ Returned
                /\ UNCHANGED <<v, i, sp, stack, display>>

\* store_array, had it copied one register more than V0 through Vx
store_array_ram_one_more(mem, regs, address, x) ==
    ram_store(mem, [a \in address..(address + x + 1) |->
                        get(regs, a - address)])

\* ram after store_array
store_array_ram(mem, regs, address, x) ==
    ram_store(mem, [a \in address..(address + x) |-> get(regs, a - address)])

\* Fx55 - LD [I], Vx; ram[i + n] must be in range for n in 0..=x
store_array ==
    /\ Fetched
    /\ high(high_byte) = 15 /\ low_byte = 85
    /\ \E due \in BOOLEAN :
        /\ Called(due, None)
        /\ IF i + low(high_byte) >= RAM_SIZE
           THEN Panicked
           ELSE /\ ram' = store_array_ram(ram, v, i, low(high_byte))
                /\ pc' = pc + 2
                /\ Ticked(due) /\ Returned
                /\ UNCHANGED <<v, i, sp, stack, display>>

\* load_array, had it stopped before Vx
load_array_regs_exclusive(mem, regs, address, x) ==
    [r \in Reg |-> IF r < x THEN ram_get(mem, address + r) ELSE get(regs, r)]

\* the registers after load_array
load_array_regs(mem, regs, address, x) ==
    [r \in Reg |-> IF r <= x THEN ram_get(mem, address + r) ELSE get(regs, r)]

\* Fx65 - LD Vx, [I]; ram[i + n] must be in range for n in 0..=x
load_array ==
    /\ Fetched
    /\ high(high_byte) = 15 /\ low_byte = 101
    /\ \E due \in BOOLEAN :
        /\ Called(due, None)
        /\ IF i + low(high_byte) >= RAM_SIZE
           THEN Panicked
           ELSE /\ v' = load_array_regs(ram, v, i, low(high_byte))
                /\ pc' = pc + 2
                /\ Ticked(due) /\ Returned
                /\ UNCHANGED <<ram, i, sp, stack, display>>

\* the words for which step() reaches a `_` arm
Unrecognised(hb, lb) ==
    \/ high(hb) = 8 /\ low(lb) \notin {0, 1, 2, 3, 4, 5, 6, 7, 14}
    \/ high(hb) = 14 /\ lb \notin {158, 161}
    \/ high(hb) = 15 /\ lb \notin {7, 10, 21, 24, 30, 41, 51, 85, 101}

\* a decode failure that still moves on to the next word
unrecognised_instruction_advancing ==
    /\ Fetched
    /\ Unrecognised(high_byte, low_byte)
    /\ \E due \in BOOLEAN :
        /\ Called(due, None)
        /\ result' = Err(high_byte, low_byte)
        /\ status' = "halted"
        /\ pc' = pc + 2
        /\ Ticked(due)
        /\ UNCHANGED <<ram, v, i, sp, stack, display>>

\* Err(Error::UnrecognisedInstruction(high_byte, low_byte)); the run loop
\* of main.rs breaks on it
unrecognised_instruction ==
    /\ Fetched
    /\ Unrecognised(high_byte, low_byte)
    /\ \E due \in BOOLEAN :
        /\ Called(due, None)
        /\ result' = Err(high_byte, low_byte)
        /\ status' = "halted"
        /\ Ticked(due)
        /\ UNCHANGED <<ram, v, i, pc, sp, stack, display>>

\* main after the run loop, had it dumped the machine whatever the option
dump_after_loop_always(option) == TRUE

\* `if dump { cpu.dump_to_stdout(); }`
dump_after_loop(option) == option

\* main after `break 'running`: the state is dumped if asked for, and main
\* returns
exit_run_loop ==
    /\ status = "halted"
    /\ status' = "exited"
    /\ dumped' = dump_after_loop(dump)
    /\ UNCHANGED <<machine, start_time, active, result, steps, last, watch,
                   loaded, eti, fuel, image, dump>>

----------------------------------------------------------------------------
(* The specification *)

Next ==
    \/ load_rom
    \/ add_key
    \/ remove_key
    \/ fetch_panic
    \/ clear
    \/ ret
    \/ sys
    \/ jump
    \/ call
    \/ skip_eq
    \/ skip_neq
    \/ skip_eq_reg
    \/ load_vx
    \/ add_vx
    \/ set_vx_to_vy
    \/ vx_or_vy
    \/ vx_and_vy
    \/ vx_xor_vy
    \/ add_vx_and_vy
    \/ sub_vx_and_vy
    \/ vx_shr
    \/ vx_subn_vy
    \/ vx_shl
    \/ skip_vx_neq_vy
    \/ load_i
    \/ jump_plus_v0
    \/ rand
    \/ draw
    \/ skip_pressed
    \/ skip_not_pressed
    \/ set_vx_delay_timer
    \/ wait_and_load_key_press
    \/ set_delay_timer
    \/ set_sound_timer
    \/ add
    \/ set_i_to_sprite_vx
    \/ store_bcd
    \/ store_array
    \/ load_array
    \/ unrecognised_instruction
    \/ exit_run_loop

Spec == Init /\ [][Next]_vars

\* the machine stepped by the run loop of main, with the wall clock observed,
\* on the images that set and read the timers
TimedInit == Created /\ watch = Epoch /\ dump = FALSE

TimedNext ==
    \/ load_timer_rom
    \/ add_key
    \/ remove_key
    \/ sys
    \/ load_vx
    \/ set_vx_delay_timer
    \/ wait_and_load_key_press
    \/ set_delay_timer
    \/ set_sound_timer
    \/ unrecognised_instruction
    \/ exit_run_loop

TimedSpec == TimedInit /\ [][TimedNext]_vars

\* the run loop of main on the same images, started with or without the dump
\* option and with the wall clock unobserved
RunInit == Created /\ watch = NoWatch /\ dump \in BOOLEAN

RunSpec == RunInit /\ [][TimedNext]_vars

----------------------------------------------------------------------------
(* What the properties below say about the latest step *)

\* the latest step() ran its handler to the end
Executed == steps > 0 /\ status # "panicked"

\* the fields of the word the latest step() fetched
LastOp == high(last.hi)
LastX == low(last.hi)
LastY == high(last.lo)
LastN == low(last.lo)

\* this transition is a step() call that fetches its word
StepTaken == steps' = steps + 1 /\ pc + 1 < RAM_SIZE

\* a timer after a step that did not write it: as before, or one less
TimerKept(before, after) == after = before \/ (before > 0 /\ after = before - 1)

----------------------------------------------------------------------------
(* C1 *)

\* C1 as stated: a step on the word 0xFFFF returns the decode failure
\* (0xFF, 0xFF) and leaves registers, address register, both timers, memory,
\* display, pc and call stack as they were.
C1_DecodeFailureChangesNothing ==
    [][ (StepTaken /\ instruction = 65535)
            => /\ result' = Err(255, 255)
               /\ UNCHANGED <<v, i, dt, st, ram, display, pc, sp, stack>> ]_vars

\* C1 amended: a step on the word 0xFFFF returns the decode failure
\* (0xFF, 0xFF) and leaves registers, address register, memory, display, pc
\* and call stack as they were; each timer is as it was or, when it was
\* non-zero, one less.
C1_DecodeFailureKeepsAllButTimers ==
    [][ (StepTaken /\ instruction = 65535)
            => /\ result' = Err(255, 255)
               /\ UNCHANGED <<v, i, ram, display, pc, sp, stack>>
               /\ TimerKept(dt, dt')
               /\ TimerKept(st, st') ]_vars

\* a decode failure on 0xFFFF was returned by a step that ticked the delay timer
C1_Witness ==
    /\ Executed
    /\ last.hi = 255 /\ last.lo = 255
    /\ result = Err(255, 255)
    /\ last.dt > 0 /\ dt = last.dt - 1
    /\ pc = last.pc /\ v = last.v

----------------------------------------------------------------------------
(* C2 *)

\* C2: after Ex9E pc is old pc + 4 when the key in Vx is held and old pc + 2
\* otherwise; after ExA1 pc is old pc + 4 when it is not held and old pc + 2
\* otherwise.
C2_KeySkips ==
    [][ /\ (StepTaken /\ high(high_byte) = 14 /\ low_byte = 158)
            => pc' = IF v[low(high_byte)] \in active THEN pc + 4 ELSE pc + 2
        /\ (StepTaken /\ high(high_byte) = 14 /\ low_byte = 161)
            => pc' = IF v[low(high_byte)] \notin active THEN pc + 4 ELSE pc + 2
      ]_vars

----------------------------------------------------------------------------
(* C3 *)

\* C3: a step on Fx0A returns success; when the latch reports no key it
\* leaves pc, the registers, the address register, memory, stack and display
\* as they were (the timers may tick); when the latch reports key k, Vx
\* becomes k, pc becomes old pc + 2 and nothing else but the timers changes.
C3_WaitForKey ==
    [][ (StepTaken /\ high(high_byte) = 15 /\ low_byte = 10)
            => /\ result' = Ok
               /\ UNCHANGED <<i, ram, sp, stack, display>>
               /\ TimerKept(dt, dt') /\ TimerKept(st, st')
               /\ IF last'.key = None
                  THEN pc' = pc /\ v' = v
                  ELSE /\ pc' = pc + 2
                       /\ v' = [v EXCEPT ![low(high_byte)] = Unwrap(last'.key)]
      ]_vars

\* the first word of the image is Fx0A; a first step found no key and held
\* pc, and a later step found key k, stored it in Vx and moved on
C3_Witness ==
    /\ Executed
    /\ steps >= 2
    /\ LastOp = 15 /\ last.lo = 10
    /\ last.pc = NORMAL_START_INDEX
    /\ last.key # None
    /\ v[LastX] = Unwrap(last.key)
    /\ v[LastX] # last.v[LastX]
    /\ pc = last.pc + 2

----------------------------------------------------------------------------
(* C4 *)

\* C4: after 8xy4 with x in 0..14, Vx = (a + b) mod 256 for the values a of
\* Vx and b of Vy before the step, register 15 is 1 if a + b >= 256 and 0
\* otherwise, and pc is old pc + 2.
C4_AddWithCarry ==
    (Executed /\ LastOp = 8 /\ LastN = 4 /\ LastX # 15)
        => /\ v[LastX] = (last.v[LastX] + last.v[LastY]) % 256
           /\ v[15] = IF last.v[LastX] + last.v[LastY] >= 256 THEN 1 ELSE 0
           /\ pc = last.pc + 2

\* an 8xy4 whose operands sum to 256 or more has set register 15 to 1
C4_Witness ==
    /\ Executed
    /\ LastOp = 8 /\ LastN = 4 /\ LastX # 15
    /\ last.v[LastX] + last.v[LastY] >= 256
    /\ v[15] = 1
    /\ v[LastX] = last.v[LastX] + last.v[LastY] - 256

----------------------------------------------------------------------------
(* C5 *)

\* the latest step ran a handler that defines a flag
LastSetsFlag == (LastOp = 8 /\ LastN \in {4, 5, 6, 7, 14}) \/ LastOp = 13

\* C5: after a flag-producing instruction register 15 holds the flag, a 0 or
\* a 1, also when the destination x is 15; for 8xy4 the flag is the carry of
\* the operands read before the step and for 8xy5 it tells whether Vx
\* exceeded Vy.
C5_FlagSurvivesDestination15 ==
    (Executed /\ LastSetsFlag)
        => /\ v[15] \in {0, 1}
           /\ (LastOp = 8 /\ LastN = 4)
                => v[15] = IF last.v[LastX] + last.v[LastY] >= 256 THEN 1 ELSE 0
           /\ (LastOp = 8 /\ LastN = 5)
                => v[15] = IF last.v[LastX] > last.v[LastY] THEN 1 ELSE 0

----------------------------------------------------------------------------
(* C6 *)

\* C6: after 8xy5 with x in 0..14, register 15 is 1 exactly when Vx was
\* strictly greater than Vy before the step, Vx = (a - b) mod 256, and pc is
\* old pc + 2.
C6_SubtractForward ==
    (Executed /\ LastOp = 8 /\ LastN = 5 /\ LastX # 15)
        => /\ v[15] = IF last.v[LastX] > last.v[LastY] THEN 1 ELSE 0
           /\ v[LastX] = (last.v[LastX] - last.v[LastY]) % 256
           /\ pc = last.pc + 2

\* an 8xy5 on two equal non-zero operands has left register 15 at 0
C6_Witness ==
    /\ Executed
    /\ LastOp = 8 /\ LastN = 5 /\ LastX # 15
    /\ last.v[LastX] = last.v[LastY] /\ last.v[LastX] > 0
    /\ v[15] = 0
    /\ v[LastX] = 0

----------------------------------------------------------------------------
(* C7 *)

\* C7: after 8xy7 with x in 0..14, Vx = (Vy - Vx) mod 256 and register 15 is
\* 1 iff Vy > Vx, Vy being the register the y nibble selects and both values
\* read before the step.
C7_SubtractReverse ==
    (Executed /\ LastOp = 8 /\ LastN = 7 /\ LastX # 15)
        => /\ v[LastX] = (last.v[LastY] - last.v[LastX]) % 256
           /\ v[15] = IF last.v[LastY] > last.v[LastX] THEN 1 ELSE 0

----------------------------------------------------------------------------
(* C8 *)

\* C8: after 8xy6 with x in 0..14, Vx = v div 2 and register 15 is the
\* least-significant bit of v, the value of Vx before the step.
C8_ShiftRight ==
    (Executed /\ LastOp = 8 /\ LastN = 6 /\ LastX # 15)
        => /\ v[LastX] = last.v[LastX] \div 2
           /\ v[15] = last.v[LastX] % 2

----------------------------------------------------------------------------
(* C9 *)

\* C9: after 8xyE with x in 0..14, Vx = (2 * v) mod 256 and register 15 is
\* the most-significant bit of v, the value of Vx before the step.
C9_ShiftLeft ==
    (Executed /\ LastOp = 8 /\ LastN = 14 /\ LastX # 15)
        => /\ v[LastX] = (2 * last.v[LastX]) % 256
           /\ v[15] = IF last.v[LastX] >= 128 THEN 1 ELSE 0

----------------------------------------------------------------------------
(* C10 *)

\* C10: after Dxyn register 15 is 1 if and only if some pixel that was on
\* before the draw is off after it, and 0 otherwise.
C10_CollisionIffErased ==
    [][ (StepTaken /\ high(high_byte) = 13 /\ status' # "panicked")
            => v'[15] = IF \E p \in display : p \notin display' THEN 1 ELSE 0
      ]_vars

----------------------------------------------------------------------------
(* What a draw is expected to do, told from the state before and after it *)

\* the latest step() was a Dxyn that returned
Drew == Executed /\ LastOp = 13

\* bit c, counted from the most-significant, of sprite byte r of that draw
DrawnBit(r, c) == Bit(ram_get(ram, last.i + r), 7 - c) = 1

\* the display column of sprite column c and the display row of sprite row r
DrawnCol(c) == ((last.v[LastX] % 64) + c) % 64
DrawnRow(r) == ((last.v[LastY] % 32) + r) % 32

\* the pixels under the n rows by 8 columns of the sprite
Footprint == { 64 * DrawnRow(r) + DrawnCol(c) : r \in 0..(LastN - 1), c \in 0..7 }

\* the pixels the latest step() changed
Changed == (display \ last.display) \cup (last.display \ display)

\* this transition is a Dxyn that returns and repeats the Dxyn of the step()
\* before it: the same word, address register and coordinates
DrawsAgain ==
    /\ StepTaken /\ high(high_byte) = 13 /\ status' # "panicked"
    /\ steps > 0
    /\ last.hi = high_byte /\ last.lo = low_byte
    /\ last.i = i
    /\ last.v[low(high_byte)] = v[low(high_byte)]
    /\ last.v[high(low_byte)] = v[high(low_byte)]

----------------------------------------------------------------------------
(* C11 *)

\* C11: after a draw every pixel under a sprite bit is the pixel before the
\* draw XOR that bit, the most-significant bit of each byte leftmost, and
\* every pixel outside the sprite's n by 8 footprint is as it was.
C11_DrawIsXor ==
    Drew =>
        /\ \A r \in 0..(LastN - 1), c \in 0..7 :
              LET p == 64 * DrawnRow(r) + DrawnCol(c)
              IN  (p \in display) = ((p \in last.display) # DrawnBit(r, c))
        /\ display \ Footprint = last.display \ Footprint

\* a draw has turned a pixel off and another on, kept a lit pixel under a
\* zero bit and kept a lit pixel outside the footprint
C11_Witness ==
    /\ Drew
    /\ last.display \ display # {}
    /\ display \ last.display # {}
    /\ (last.display \cap display) \cap Footprint # {}
    /\ (last.display \cap display) \ Footprint # {}

----------------------------------------------------------------------------
(* C12 *)

\* C12: drawing the same sprite at the same position twice in succession
\* leaves every display pixel as it was before the first draw.
C12_DoubleDrawRestores ==
    [][ DrawsAgain => display' = last.display ]_vars

\* the image is DRW ; DRW: the first draw lit pixels of a blank display and
\* the second has blanked it again
C12_Witness ==
    /\ Drew
    /\ steps = 2 /\ loaded = 4
    /\ ram_get(ram, last.pc - 2) = last.hi
    /\ ram_get(ram, last.pc - 1) = last.lo
    /\ last.display # {}
    /\ display = {}

----------------------------------------------------------------------------
(* C13 *)

\* C13: when the same sprite is drawn twice in succession at the same
\* position, the second draw leaves register 15 at 1 if and only if the
\* first draw turned at least one pixel on.
C13_SecondDrawFlag ==
    [][ DrawsAgain
            => v'[15] = IF display \ last.display # {} THEN 1 ELSE 0 ]_vars

----------------------------------------------------------------------------
(* C14 *)

\* C14: the pixels a draw changes in the display row of sprite row r are
\* exactly those at the columns ((x mod 64) + c) mod 64 of the set bits c of
\* that row, a column past 63 wrapping within the same display row, and no
\* other row changes.
C14_ColumnsWrapInRow ==
    Drew =>
        /\ \A r \in 0..(LastN - 1) :
              { p \in Changed : p \div 64 = DrawnRow(r) }
                  = { 64 * DrawnRow(r) + DrawnCol(c) :
                          c \in { k \in 0..7 : DrawnBit(r, k) } }
        /\ \A p \in Changed : \E r \in 0..(LastN - 1) : p \div 64 = DrawnRow(r)

\* a two-row draw at x = 60, y = 31 has changed column 3 of row 31 and
\* column 2 of row 0, and nothing in rows 1 or 30
C14_Witness ==
    /\ Drew
    /\ last.v[LastX] = 60 /\ last.v[LastY] = 31 /\ LastN = 2
    /\ 64 * 31 + 3 \in Changed
    /\ 64 * 31 + 60 \in Changed
    /\ 2 \in Changed
    /\ \A p \in Changed : p \div 64 \in {31, 0}

----------------------------------------------------------------------------
(* C15 *)

\* C15 as stated: the vertical coordinate is wrapped modulo 32 once, at
\* entry, and the rows of the later sprite rows are not wrapped: a draw
\* changes no pixel in a row above its starting row.
C15_RowsWrapOnlyAtEntry ==
    Drew => \A p \in Changed : p \div 64 >= last.v[LastY] % 32

\* C15 amended: the vertical coordinate is wrapped modulo 32 at entry and
\* again after every sprite row: the rows a draw changes are the rows
\* ((y mod 32) + r) mod 32 of its non-zero sprite bytes r.
C15_RowsWrapAfterEveryRow ==
    Drew =>
        { p \div 64 : p \in Changed }
            = { DrawnRow(r) :
                    r \in { k \in 0..(LastN - 1) : ram_get(ram, last.i + k) # 0 } }

\* a draw that started in row 31 has changed a pixel in row 0
C15_Witness ==
    /\ Drew
    /\ last.v[LastY] % 32 = 31
    /\ LastN >= 2
    /\ \E p \in Changed : p \div 64 = 0
    /\ \E p \in Changed : p \div 64 = 31

----------------------------------------------------------------------------
(* C16 *)

\* the latest step() was a CALL that returned
Called_last == Executed /\ LastOp = 2

\* C16: a CALL at address p stores p in the slot at the stack pointer, adds
\* one to the stack pointer and goes to addr; a RET takes one from the stack
\* pointer and resumes two bytes after the address in that slot; so a RET
\* executed at addr right after the CALL leaves pc = p + 2 and the stack
\* pointer as it was before the CALL, and nested calls return last in,
\* first out.
C16_CallReturnRoundTrip ==
    [][ /\ (StepTaken /\ high(high_byte) = 2 /\ status' # "panicked")
            => /\ stack' = [stack EXCEPT ![sp] = pc]
               /\ sp' = sp + 1
               /\ pc' = addr
        /\ (StepTaken /\ instruction = 238 /\ status' # "panicked")
            => /\ sp' = sp - 1
               /\ pc' = stack[sp'] + 2
               /\ stack' = stack
        /\ (StepTaken /\ instruction = 238 /\ status' # "panicked"
                /\ Called_last)
            => /\ pc' = last.pc + 2
               /\ sp' = last.sp
      ]_vars

\* two nested CALLs have been followed by two RETs: the second RET has
\* returned behind the first CALL, at depth 0
C16_Witness ==
    /\ Executed
    /\ steps = 4
    /\ last.hi = 0 /\ last.lo = 238
    /\ last.sp = 1
    /\ sp = 0
    /\ stack[0] = NORMAL_START_INDEX /\ stack[1] = NORMAL_START_INDEX + 2
    /\ pc = NORMAL_START_INDEX + 2

----------------------------------------------------------------------------
(* C17 *)

\* C17: the stack pointer is between 0 and 16 inclusive and the stack has
\* the slots 0..15 and no other: a CALL at depth 16 stores no 17th return
\* address and a RET at depth 0 does not move the stack pointer below 0.
\* (A CALL at depth 16 fails the index check of `self.stack[self.sp]`; a RET
\* at depth 0 fails `self.sp -= 1` or, where that wraps, the index check; in
\* both cases step() panics and does not return.)
C17_StackDepthBounded ==
    /\ sp \in 0..STACK_SIZE
    /\ DOMAIN stack = 0..(STACK_SIZE - 1)
    /\ (status = "panicked" /\ steps > 0 /\ LastOp = 2)
            => (sp = last.sp /\ stack = last.stack)

\* sixteen nested CALLs have filled the stack and the seventeenth has
\* panicked without storing anything
C17_Witness ==
    /\ status = "panicked"
    /\ LastOp = 2
    /\ last.sp = STACK_SIZE
    /\ sp = STACK_SIZE
    /\ stack = last.stack
    /\ \A k \in 0..(STACK_SIZE - 1) : stack[k] = NORMAL_START_INDEX

----------------------------------------------------------------------------
(* C18 *)

\* C18: right after load_rom of an image of length L, pc is the load offset,
\* 0x200 (512) by default and 0x600 (1536) in ETI mode, the bytes at offset
\* .. offset + L - 1 are the bytes of the image and every other byte of
\* memory is as Chip8::new left it.
C18_LoadOffset ==
    (status = "running" /\ steps = 0)
        => LET offset == IF eti THEN 1536 ELSE 512
           IN  /\ pc = offset
               /\ \A a \in Address :
                     ram_get(ram, a)
                         = IF offset <= a /\ a < offset + Len(image)
                           THEN image[a - offset + 1]
                           ELSE IF a < Len(FontBytes) THEN FontBytes[a + 1]
                           ELSE 0

----------------------------------------------------------------------------
(* C19 *)

\* C19: the 80 font bytes at addresses 0x000..0x04F are never changed after
\* machine creation, whatever program is stepped.
C19_FontNeverChanges ==
    \A a \in 0..(Len(FontBytes) - 1) : ram_get(ram, a) = FontBytes[a + 1]

----------------------------------------------------------------------------
(* C20 *)

\* C20: a step() decrements a timer only if a 60 Hz tick boundary was
\* crossed since the previous step(), and then by one: two steps inside the
\* same 1/60 s period never both decrement.  (Fx15 and Fx18 write the timer
\* they name; every other step leaves it to the sampling.)
C20_TimerRate ==
    [][ StepTaken =>
          /\ (~(high(high_byte) = 15 /\ low_byte = 21) /\ dt' # dt)
                => (watch'.crossed /\ dt' = dt - 1)
          /\ (~(high(high_byte) = 15 /\ low_byte = 24) /\ st' # st)
                => (watch'.crossed /\ st' = st - 1)
      ]_vars

----------------------------------------------------------------------------
(* C21 *)

\* the instruction words the decode table defines
Pattern(hb, lb) ==
    \/ high(hb) \in {0, 1, 2, 3, 4, 6, 7, 10, 11, 12, 13}
    \/ high(hb) \in {5, 9} /\ low(lb) = 0
    \/ high(hb) = 8 /\ low(lb) \in (0..7) \cup {14}
    \/ high(hb) = 14 /\ lb \in {158, 161}
    \/ high(hb) = 15 /\ lb \in {7, 10, 21, 24, 30, 41, 51, 85, 101}

\* C21: a step on a word that matches none of the defined patterns returns
\* the decode failure carrying the two fetched bytes and leaves pc as it
\* was; a step on a word that matches one of them returns success (unless
\* the process stops in the handler).
C21_DecodeTable ==
    [][ StepTaken
            => IF Pattern(high_byte, low_byte)
               THEN status' # "panicked" => result' = Ok
               ELSE result' = Err(high_byte, low_byte) /\ pc' = pc ]_vars

----------------------------------------------------------------------------
(* C22 *)

\* C22: after 6xkk Vx is kk, no other general register has changed and pc is
\* old pc + 2; after 7xjj Vx is (old Vx + jj) mod 256, no other general
\* register has changed (register 15 included when x is not 15) and pc is
\* old pc + 2.
C22_LoadThenAdd ==
    /\ (Executed /\ LastOp = 6)
        => /\ v = [last.v EXCEPT ![LastX] = last.lo]
           /\ pc = last.pc + 2
    /\ (Executed /\ LastOp = 7)
        => /\ v = [last.v EXCEPT ![LastX] = (last.v[LastX] + last.lo) % 256]
           /\ pc = last.pc + 2

\* the program 6005, 7003 has run: V0 is 8, pc is the load offset + 4 and
\* register 15 is as it was
C22_Witness ==
    /\ Executed
    /\ last.hi = 112 /\ last.lo = 3
    /\ last.v[0] = 5
    /\ v[0] = 8
    /\ v[15] = last.v[15]
    /\ image = <<96, 5, 112, 3>>
    /\ pc = start_index(eti) + 4

----------------------------------------------------------------------------
(* C23 *)

\* C23: once a step() has returned a decode failure no further step() is
\* made; the run loop has been left as soon as the failure is returned; and
\* the machine state is dumped only after the loop was left and only when
\* the dump option was given.
C23_HaltAfterDecodeFailure ==
    /\ [][ result # Ok => steps' = steps ]_vars
    /\ [](result # Ok => status \in {"halted", "exited"})
    /\ [](dumped => (dump /\ status = "exited"))

\* a run started with the dump option hit a decode failure at its second
\* step, left the loop without stepping again and dumped the state
C23_Witness ==
    /\ status = "exited"
    /\ result = Err(last.hi, last.lo)
    /\ steps = 2
    /\ dump /\ dumped

----------------------------------------------------------------------------
(* C24 *)

\* the addresses the step about to be made reads or writes: the fetch at pc
\* and pc + 1, the n bytes of the sprite of Dxyn, the three bytes of Fx33
\* and the x + 1 bytes of Fx55 and Fx65
Requested ==
    {pc, pc + 1}
    \cup (IF pc + 1 >= RAM_SIZE THEN {}
          ELSE IF high(high_byte) = 13 THEN i..(i + low(low_byte) - 1)
          ELSE IF high(high_byte) = 15 /\ low_byte = 51 THEN i..(i + 2)
          ELSE IF high(high_byte) = 15 /\ low_byte \in {85, 101}
               THEN i..(i + low(high_byte))
          ELSE {})

\* C24: memory never holds a byte outside 0x000..0xFFF, and every step that
\* returns has fetched, read and written only at addresses within
\* 0x000..0xFFF: a step whose addresses reach past 0xFFF is stopped by the
\* index check.
C24_AccessesInRange ==
    /\ [](DOMAIN ram \subseteq Address)
    /\ [][ (steps' = steps + 1 /\ status' # "panicked")
                => Requested \subseteq Address ]_vars

\* Fx33 with the address register at 0xFFD has written the last three bytes
\* of memory
C24_Witness ==
    /\ Executed
    /\ LastOp = 15 /\ last.lo = 51
    /\ last.i = RAM_SIZE - 3
    /\ last.v[LastX] = 5
    /\ ram_get(ram, RAM_SIZE - 1) = 5
    /\ DOMAIN ram \subseteq Address

----------------------------------------------------------------------------
(* C25 *)

\* the step being made samples the clock within the 0.01 s in which
\* run_timers ticks
TickApplied == watch'.on /\ watch'.phase <= DueTicks

\* a timer after a tick: one less, and zero when it was zero
Saturating(t) == IF t > 0 THEN t - 1 ELSE 0

\* C25: both timers are in 0..255 in every state; a tick applied to a timer
\* that is 0 leaves it 0 and a tick applied to a timer v > 0 leaves v - 1
\* (on a step that does not load that timer), and without a tick the timer
\* is as it was.
C25_TimersSaturate ==
    /\ [](dt \in Byte /\ st \in Byte)
    /\ [][ StepTaken
            => /\ ~(high(high_byte) = 15 /\ low_byte = 21)
                    => dt' = IF TickApplied THEN Saturating(dt) ELSE dt
               /\ ~(high(high_byte) = 15 /\ low_byte = 24)
                    => st' = IF TickApplied THEN Saturating(st) ELSE st
      ]_vars

\* one tick took the delay timer from v > 0 to v - 1 and left the sound
\* timer at 0
C25_Witness ==
    /\ Executed
    /\ steps >= 2
    /\ watch.on /\ watch.phase <= DueTicks
    /\ ~(LastOp = 15 /\ last.lo \in {21, 24})
    /\ last.dt > 0 /\ dt = last.dt - 1
    /\ last.st = 0 /\ st = 0

----------------------------------------------------------------------------
(* C26 *)

\* pc and every saved return address are even
Aligned == pc % 2 = 0 /\ \A s \in 0..(sp - 1) : stack[s] % 2 = 0

\* the step about to be made is a jump, a call or a jump-plus-V0 to an odd
\* address
OddTarget ==
    \/ high(high_byte) \in {1, 2} /\ addr % 2 = 1
    \/ high(high_byte) = 11 /\ (addr + v[0]) % 2 = 1

\* the step about to be made is a jump, a jump-plus-V0, a call or a return
Transfers ==
    \/ high(high_byte) \in {1, 2, 11}
    \/ high(high_byte) = 0 /\ low_byte = 238

----------------------------------------------------------------------------
(* C27 *)

\* the step about to be made is one of the conditional skips
Skips ==
    \/ high(high_byte) \in {3, 4}
    \/ high(high_byte) \in {5, 9} /\ low(low_byte) = 0

\* the condition of the conditional skip about to be made
SkipCondition ==
    IF high(high_byte) = 3 THEN v[low(high_byte)] = low_byte
    ELSE IF high(high_byte) = 4 THEN v[low(high_byte)] # low_byte
    ELSE IF high(high_byte) = 5 THEN v[low(high_byte)] = v[high(low_byte)]
    ELSE v[low(high_byte)] # v[high(low_byte)]

\* C27 as stated: 3xkk, 4xkk, 5xy0 and 9xy0 set pc to old pc + 4 when their
\* condition holds and to old pc + 2 when it does not, and change no
\* register of the register file (general registers, address register,
\* delay and sound timer), no memory byte, no stack slot and no pixel.
C27_SkipsChangeOnlyPc ==
    [][ (StepTaken /\ Skips)
            => /\ pc' = IF SkipCondition THEN pc + 4 ELSE pc + 2
               /\ UNCHANGED <<v, i, dt, st, ram, sp, stack, display>> ]_vars

\* C27 amended: 3xkk, 4xkk, 5xy0 and 9xy0 set pc to old pc + 4 when their
\* condition holds and to old pc + 2 when it does not, and change no general
\* register, not the address register, no memory byte, no stack slot and no
\* pixel; each timer is as it was or, when it was non-zero, one less.
C27_SkipsChangeOnlyPcAndTimers ==
    [][ (StepTaken /\ Skips)
            => /\ pc' = IF SkipCondition THEN pc + 4 ELSE pc + 2
               /\ UNCHANGED <<v, i, ram, sp, stack, display>>
               /\ TimerKept(dt, dt')
               /\ TimerKept(st, st') ]_vars

\* a 3xkk whose register equals kk has skipped the next word while the
\* delay timer ticked
C27_Witness ==
    /\ Executed
    /\ LastOp = 3
    /\ last.v[LastX] = last.lo
    /\ pc = last.pc + 4
    /\ v = last.v /\ i = last.i
    /\ last.dt > 0 /\ dt = last.dt - 1

----------------------------------------------------------------------------
(* C28 *)

\* C28: a step on a word 0nnn other than 00E0 and 00EE returns success,
\* sets pc to old pc + 2 and leaves the general registers, the address
\* register, memory, the call stack and the display as they were; each
\* timer is as it was or, when it was non-zero, one less.
C28_SysIsNoOp ==
    [][ (StepTaken /\ high(high_byte) = 0 /\ instruction \notin {224, 238})
            => /\ result' = Ok
               /\ pc' = pc + 2
               /\ UNCHANGED <<v, i, ram, sp, stack, display>>
               /\ TimerKept(dt, dt')
               /\ TimerKept(st, st') ]_vars

----------------------------------------------------------------------------
(* C29 *)

\* C29: a step on a word that is neither Dxyn nor 00E0, a step that returns
\* a decode failure included, leaves every pixel as it was; a step on 00E0
\* leaves every pixel off and sets pc to old pc + 2.
C29_OnlyDrawAndClearTouchDisplay ==
    [][ /\ (StepTaken /\ high(high_byte) # 13 /\ instruction # 224)
                => display' = display
        /\ (StepTaken /\ instruction = 224)
                => display' = {} /\ pc' = pc + 2
      ]_vars

----------------------------------------------------------------------------
(* C30 *)

\* the step about to be made is an Fx33 that returns
StoresBcd ==
    /\ StepTaken
    /\ high(high_byte) = 15 /\ low_byte = 51
    /\ status' # "panicked"

\* the three bytes at I after the step are the decimal digits of the value
\* Vx had, every other byte of memory is as it was, and so are the general
\* registers and the address register; pc is old pc + 2
BcdStored ==
    /\ ram_get(ram', i) = v[low(high_byte)] \div 100
    /\ ram_get(ram', i + 1) = (v[low(high_byte)] \div 10) % 10
    /\ ram_get(ram', i + 2) = v[low(high_byte)] % 10
    /\ \A a \in (DOMAIN ram \cup DOMAIN ram') \ {i, i + 1, i + 2} :
            ram_get(ram', a) = ram_get(ram, a)
    /\ UNCHANGED <<v, i>>
    /\ pc' = pc + 2

\* for every byte value the three stored digits are in 0..9 and give the
\* value back
BcdDigits ==
    \A value \in Byte :
        LET mem == store_bcd_ram(<<>>, 768, value)
        IN  /\ \A k \in 0..2 : ram_get(mem, 768 + k) \in 0..9
            /\ 100 * ram_get(mem, 768) + 10 * ram_get(mem, 769)
                    + ram_get(mem, 770) = value
            /\ DOMAIN mem \subseteq {768, 769, 770}

\* C30 as stated: after Fx33 memory[I], memory[I+1], memory[I+2] hold
\* v div 100, (v div 10) mod 10 and v mod 10 for the value v of Vx, digits
\* that give v back; no other memory byte and no register of the register
\* file (general registers, address register, delay and sound timer) is
\* changed, and pc is old pc + 2.
C30_StoreBcd ==
    [][ StoresBcd
            => (BcdDigits /\ BcdStored /\ UNCHANGED <<dt, st>>) ]_vars

\* C30 amended: as stated for memory, the general registers, the address
\* register and pc; each timer is as it was or, when it was non-zero, one
\* less.
C30_StoreBcdAndTimers ==
    [][ StoresBcd
            => /\ BcdDigits
               /\ BcdStored
               /\ TimerKept(dt, dt')
               /\ TimerKept(st, st') ]_vars

\* Fx33 on the value 250 has stored 2, 5, 0 at I while the delay timer
\* ticked
C30_Witness ==
    /\ Executed
    /\ LastOp = 15 /\ last.lo = 51
    /\ last.v[LastX] = 250
    /\ ram_get(ram, last.i) = 2
    /\ ram_get(ram, last.i + 1) = 5
    /\ ram_get(ram, last.i + 2) = 0
    /\ pc = last.pc + 2
    /\ last.dt > 0 /\ dt = last.dt - 1

----------------------------------------------------------------------------
(* C31 *)

\* the step about to be made is an Fx55 that returns
StoresArray ==
    /\ StepTaken
    /\ high(high_byte) = 15 /\ low_byte = 85
    /\ status' # "panicked"

\* the step about to be made is an Fx65 that returns
LoadsArray ==
    /\ StepTaken
    /\ high(high_byte) = 15 /\ low_byte = 101
    /\ status' # "panicked"

\* memory[I..I+x] holds V0..Vx after the step, every other byte of memory
\* is as it was, and so are the general registers and the address register
ArrayStored ==
    /\ \A k \in 0..low(high_byte) : ram_get(ram', i + k) = v[k]
    /\ \A a \in (DOMAIN ram \cup DOMAIN ram') \ (i..(i + low(high_byte))) :
            ram_get(ram', a) = ram_get(ram, a)
    /\ UNCHANGED <<v, i>>

\* V0..Vx hold memory[I..I+x] after the step and V(x+1)..VF, the address
\* register and memory are as they were
ArrayLoaded ==
    /\ \A k \in 0..low(high_byte) : v'[k] = ram_get(ram, i + k)
    /\ \A r \in (low(high_byte) + 1)..15 : v'[r] = v[r]
    /\ UNCHANGED <<i, ram>>

\* the Fx65 about to be made is the third of three words run in a row from
\* the start of the image: an Fx55 with the same x, a word that left the
\* address register alone, and this Fx65; `last` is the state the Fx55 left
RoundTrip ==
    /\ pc = start_index(eti) + 2 * steps
    /\ steps >= 2
    /\ ram_get(ram, pc - 4) = high_byte /\ ram_get(ram, pc - 3) = 85
    /\ last.pc = pc - 2
    /\ last.i = i

\* C31 as stated: Fx55 copies V0..Vx to memory[I..I+x] and changes no
\* register of the register file (general registers, address register,
\* delay and sound timer); Fx65 loads V0..Vx from memory[I..I+x] and leaves
\* V(x+1)..VF alone; an Fx65 after an Fx55 with the same x and the same
\* address register restores the values V0..Vx had at the Fx55.
C31_RegisterBlockRoundTrip ==
    [][ /\ StoresArray => (ArrayStored /\ UNCHANGED <<dt, st>>)
        /\ LoadsArray => ArrayLoaded
        /\ (LoadsArray /\ RoundTrip)
                => \A k \in 0..low(high_byte) : v'[k] = last.v[k]
      ]_vars

\* C31 amended: as stated, except that over the Fx55 each timer is as it
\* was or, when it was non-zero, one less.
C31_RegisterBlockRoundTripAndTimers ==
    [][ /\ StoresArray
                => (ArrayStored /\ TimerKept(dt, dt') /\ TimerKept(st, st'))
        /\ LoadsArray => ArrayLoaded
        /\ (LoadsArray /\ RoundTrip)
                => \A k \in 0..low(high_byte) : v'[k] = last.v[k]
      ]_vars

\* V1 was stored by F155 at 0x301, overwritten with 0x77 and restored by
\* F165 to the value it had at the store
C31_Witness ==
    /\ Executed
    /\ LastOp = 15 /\ LastX = 1 /\ last.lo = 101
    /\ last.i = 768
    /\ last.v[1] = 119
    /\ v[1] = 250
    /\ ram_get(ram, 769) = 250
    /\ v[0] = ram_get(ram, 768)
    /\ v[2] = last.v[2]
    /\ image[loaded - 4] = 85 /\ image[loaded - 2] = 119

----------------------------------------------------------------------------
(* C32 *)

\* the step about to be made is an Fx29
LoadsFontAddress == StepTaken /\ high(high_byte) = 15 /\ low_byte = 41

\* the address register after the step is Vx * 5 when Vx <= 0xF, the place
\* where the five bytes of digit Vx are preloaded, and is as it was when
\* Vx > 0xF; pc is old pc + 2 and the general registers, memory, the call
\* stack and the display are as they were
FontAddressLoaded ==
    /\ result' = Ok
    /\ IF v[low(high_byte)] <= 15
       THEN /\ i' = v[low(high_byte)] * 5
            /\ \A k \in 0..4 :
                ram_get(load_hexadecimal_display_bytes(<<>>), i' + k)
                    = FontBytes[5 * v[low(high_byte)] + k + 1]
       ELSE i' = i
    /\ pc' = pc + 2
    /\ UNCHANGED <<v, ram, sp, stack, display>>

\* C32 as stated: Fx29 sets the address register to Vx * 5, the first of
\* the five preloaded font bytes of digit Vx, when Vx <= 0xF and leaves it
\* unchanged when Vx > 0xF; pc becomes old pc + 2 and nothing else, the
\* timers included, changes.
C32_FontAddress ==
    [][ LoadsFontAddress
            => (FontAddressLoaded /\ UNCHANGED <<dt, st>>) ]_vars

\* C32 amended: as stated, except that each timer is as it was or, when it
\* was non-zero, one less.
C32_FontAddressAndTimers ==
    [][ LoadsFontAddress
            => /\ FontAddressLoaded
               /\ TimerKept(dt, dt')
               /\ TimerKept(st, st') ]_vars

\* Fx29 on a register holding 250 has left the address register at 0x300
\* and moved pc on while the delay timer ticked
C32_Witness ==
    /\ Executed
    /\ LastOp = 15 /\ last.lo = 41
    /\ last.v[LastX] = 250
    /\ last.i = 768 /\ i = 768
    /\ pc = last.pc + 2
    /\ last.dt > 0 /\ dt = last.dt - 1

====
